---- MODULE Spec2Model ----
(***************************************************************************)
(* Model of src/index.js: the Key command channel over a HID transport     *)
(* (request packets, the 'data' handler, the per-operation listeners on    *)
(* the shared EventEmitter) and the Wallet built on top of it (account     *)
(* directory, address lookup, signature normalisation and recovery id).    *)
(***************************************************************************)
EXTENDS Integers, Sequences, FiniteSets, TLC

(***************************************************************************)
(* Program constants                                                       *)
(***************************************************************************)
HID_PACKET_SIZE == 64
ETH_ADDRESS_SIZE == 20

CMD_CREATE_KEY == 2
CMD_DUMP_KEYS == 3
CMD_DELETE == 4
CMD_SIGN == 5

RES_KEY_CREATED == 1
RES_DUMP_KEYS == 2
RES_SIGN == 3
RES_DONE == 255

\* the index byte that ends the scan of one DUMP_KEYS packet
SENTINEL == 255

(***************************************************************************)
(* Bounds of the model                                                     *)
(***************************************************************************)
\* channel operations called over one run
MaxOps == 2
\* response packets other than DONE delivered to waiting operations, over one run
MaxSeen == 3
\* how far from 0, N/2 and N the values of s given to the normalisation lie
MaxOffset == 12
\* how many times in a row the normalisation is applied to a value
MaxApply == 2

(***************************************************************************)
(* Buffers: sequences of bytes; strings: sequences of one-character        *)
(* strings.                                                                *)
(***************************************************************************)
Min(a, b) == IF a < b THEN a ELSE b

\* _.fill(new Array(n), v) / a buffer of n bytes v
Fill(n, v) == [i \in 1..n |-> v]

\* Buffer.prototype.slice(from, to) with 0-based, end-exclusive offsets,
\* clamped to the buffer
Slice(buff, from, to) ==
    LET hi == Min(to, Len(buff))
    IN  IF from >= hi THEN <<>> ELSE [i \in 1..(hi - from) |-> buff[from + i]]

HexDigits == <<"0", "1", "2", "3", "4", "5", "6", "7",
               "8", "9", "a", "b", "c", "d", "e", "f">>

\* Buffer.prototype.toString('hex'): two lowercase digits per byte
RECURSIVE toHex(_)
toHex(buff) ==
    IF buff = <<>> THEN <<>>
    ELSE <<HexDigits[(buff[1] \div 16) + 1], HexDigits[(buff[1] % 16) + 1]>>
            \o toHex(Tail(buff))

\* the template literal `0x${...toString('hex')}`
HexAddress(buff) == <<"0", "x">> \o toHex(buff)

LowerOf(c) ==
    CASE c = "A" -> "a" [] c = "B" -> "b" [] c = "C" -> "c"
      [] c = "D" -> "d" [] c = "E" -> "e" [] c = "F" -> "f"
      [] c = "X" -> "x" [] OTHER -> c

Characters ==
    {HexDigits[d] : d \in 1..16} \cup {"A", "B", "C", "D", "E", "F", "x", "X"}
LowerCase == [c \in Characters |-> LowerOf(c)]

\* String.prototype.toLowerCase
toLowerCase(str) == [i \in 1..Len(str) |-> LowerCase[str[i]]]

(***************************************************************************)
(* Big numbers (bn.js) as big-endian byte sequences without leading zeros. *)
(***************************************************************************)
RECURSIVE Strip(_)
Strip(b) == IF b # <<>> /\ b[1] = 0 THEN Strip(Tail(b)) ELSE b

HexValues == [c \in {HexDigits[d] : d \in 1..16} |-> CHOOSE d \in 0..15 : HexDigits[d + 1] = c]
HexVal(c) == HexValues[c]

\* new BN(hexString, 16)
RECURSIVE BytesOfHex(_)
BytesOfHex(str) ==
    IF Len(str) < 2 THEN <<>>
    ELSE <<HexVal(str[1]) * 16 + HexVal(str[2])>> \o BytesOfHex(Tail(Tail(str)))

BNfromHex(str) == Strip(BytesOfHex(str))

\* ethereumjs-util setLengthLeft(msg, length): left-pad with zeros, or keep
\* the rightmost `length` bytes
setLengthLeft(msg, length) ==
    IF Len(msg) < length THEN Fill(length - Len(msg), 0) \o msg
    ELSE Slice(msg, Len(msg) - length, Len(msg))

RECURSIVE LexGt(_, _)
LexGt(a, b) ==
    IF a = <<>> THEN FALSE
    ELSE IF a[1] # b[1] THEN a[1] > b[1]
    ELSE LexGt(Tail(a), Tail(b))

\* BNgt that compares the byte lengths only
BNgtLength(a, b) == Len(a) > Len(b)

\* BN.prototype.gt on non-negative numbers
BNgt(a, b) ==
    IF Len(a) # Len(b) THEN Len(a) > Len(b) ELSE LexGt(a, b)

RECURSIVE SubBytes(_, _, _, _, _)
SubBytes(a, b, i, borrow, acc) ==
    IF i = 0 THEN acc
    ELSE LET d == a[i] - b[i] - borrow
         IN  IF d < 0 THEN SubBytes(a, b, i - 1, 1, <<d + 256>> \o acc)
             ELSE SubBytes(a, b, i - 1, 0, <<d>> \o acc)

\* |a - b|: BN.prototype.sub followed by toBuffer(), which writes the
\* magnitude of the number
BNsubMag(a, b) ==
    LET n == IF Len(a) > Len(b) THEN Len(a) ELSE Len(b)
        x == setLengthLeft(a, n)
        y == setLengthLeft(b, n)
    IN  IF LexGt(y, x) THEN Strip(SubBytes(y, x, n, 0, <<>>))
        ELSE Strip(SubBytes(x, y, n, 0, <<>>))

RECURSIVE HalfBytes(_, _, _)
HalfBytes(a, carry, acc) ==
    IF a = <<>> THEN acc
    ELSE LET v == carry * 256 + a[1]
         IN  HalfBytes(Tail(a), v % 2, acc \o <<v \div 2>>)

\* BN.prototype.div(new BN(2))
BNdiv2(a) == Strip(HalfBytes(a, 0, <<>>))

\* BN.prototype.toBuffer(): at least one byte
BNtoBuffer(a) == IF a = <<>> THEN <<0>> ELSE a

secp256k1N ==
    <<255, 255, 255, 255, 255, 255, 255, 255, 255, 255, 255, 255, 255, 255, 255, 254,
      186, 174, 220, 230, 175, 72, 160, 59, 191, 210, 94, 140, 208, 54, 65, 65>>

secp256k1halfN == BNdiv2(secp256k1N)

\* NormalizeS that replaces every s by N - s
NormalizeSFlip(s) ==
    setLengthLeft(BNtoBuffer(BNsubMag(secp256k1N, BNfromHex(toHex(s)))), 32)

\* Wallet.sign, the EIP-2 step: the 32 bytes of s the signature carries
NormalizeS(s) ==
    LET sValue == BNfromHex(toHex(s))
    IN  IF BNgt(sValue, secp256k1halfN)
        THEN setLengthLeft(BNtoBuffer(BNsubMag(secp256k1N, sValue)), 32)
        ELSE setLengthLeft(s, 32)

(***************************************************************************)
(* listAccounts: the scan of the accumulated DUMP_KEYS payloads            *)
(***************************************************************************)
RECURSIVE ScanPacket(_, _, _)
ScanPacket(buff, i, addresses) ==
    IF ~(i < Len(buff)) THEN addresses
    ELSE IF buff[i + 1] = SENTINEL THEN addresses
    ELSE ScanPacket(buff, i + 1 + ETH_ADDRESS_SIZE,
                    Append(addresses,
                           [index |-> buff[i + 1],
                            address |-> HexAddress(Slice(buff, i + 1,
                                                     i + 1 + ETH_ADDRESS_SIZE))]))

\* ScanAll that ends the whole scan at the first packet holding a sentinel
RECURSIVE ScanAllUntilSentinel(_, _)
ScanAllUntilSentinel(res, addresses) ==
    IF res = <<>> THEN addresses
    ELSE IF \E k \in 0..2 : res[1][k * (1 + ETH_ADDRESS_SIZE) + 1] = SENTINEL
    THEN ScanPacket(res[1], 0, addresses)
    ELSE ScanAllUntilSentinel(Tail(res), ScanPacket(res[1], 0, addresses))

RECURSIVE ScanAll(_, _)
ScanAll(res, addresses) ==
    IF res = <<>> THEN addresses
    ELSE ScanAll(Tail(res), ScanPacket(res[1], 0, addresses))

(***************************************************************************)
(* Inputs: the packets the transport may deliver and the arguments the     *)
(* callers may pass.                                                       *)
(***************************************************************************)
AddrA == Fill(ETH_ADDRESS_SIZE, 171)
AddrB == Fill(ETH_ADDRESS_SIZE, 255)
AddrC == Fill(ETH_ADDRESS_SIZE, 12)

Entry(index, addr) == <<index>> \o addr

\* one entry, the sentinel, then bytes that look like an entry
PktDumpOne ==
    <<RES_DUMP_KEYS>> \o Entry(1, AddrA) \o <<SENTINEL>> \o Entry(2, AddrB)
        \o Fill(ETH_ADDRESS_SIZE, 0)
\* three whole entries and no sentinel
PktDumpFull ==
    <<RES_DUMP_KEYS>> \o Entry(2, AddrB) \o Entry(3, AddrA) \o Entry(4, AddrB)

\* a low value and a value above N/2 (N - 1), each followed by 31 other bytes
SigLow == Fill(31, 0) \o <<7>>
SigHigh == SubBytes(secp256k1N, Fill(31, 0) \o <<1>>, 32, 0, <<>>)
PktSignLow == <<RES_SIGN>> \o SigLow \o Fill(31, 170)
PktSignHigh == <<RES_SIGN>> \o SigHigh \o Fill(31, 187)

PktKeyCreatedA == <<RES_KEY_CREATED>> \o AddrA \o Fill(43, 0)
PktKeyCreatedB == <<RES_KEY_CREATED>> \o AddrB \o Fill(43, 0)

PktDone == <<RES_DONE>> \o Fill(63, 0)
\* a tag the data handler's switch has no case for
PktUnknown == <<9>> \o Fill(63, 0)

Packets ==
    {PktDumpOne, PktDumpFull, PktSignLow, PktSignHigh,
     PktKeyCreatedA, PktKeyCreatedB, PktDone, PktUnknown}

Indexes == {1}
Digest == Fill(32, 17)
Digests == {Digest}

\* the address of slot A written in upper case, and an address of no slot
UpperA == <<"0", "x">> \o [i \in 1..(2 * ETH_ADDRESS_SIZE) |-> IF i % 2 = 1 THEN "A" ELSE "B"]
AddressArgs == {UpperA, HexAddress(AddrC)}

\* the 32 bytes of s a signature may carry: values at and next to 0, N/2 and N
AddLast(b, d) == [b EXCEPT ![Len(b)] = @ + d]
SInputs ==
    UNION {{AddLast(Fill(32, 0), k),
            AddLast(secp256k1halfN, -k),
            AddLast(secp256k1halfN, 1 + k),
            AddLast(secp256k1N, -(1 + k)),
            AddLast(secp256k1N, k)} : k \in 0..MaxOffset}

\* the addresses ecrecover + pubToAddress may produce
RecoveredBuffers == {AddrA, AddrB}
Oracles == [{27, 28} -> RecoveredBuffers]

(***************************************************************************)
(* State                                                                   *)
(***************************************************************************)
VARIABLES
    ops,        \* the promises of the operations called, in call order
    listeners,  \* the EventEmitter's listeners, per event, in registration order
    written,    \* the request packets device.write accepted, in order
    queue,      \* the requests the device has not yet answered with DONE
    closed,     \* device.close() was called
    lastClose,  \* the close() call of the last step and how it ended
    crashed,    \* an exception left the 'data' handler
    accounts,   \* Wallet.accounts
    lookup,     \* the getAddressIndex call of the last step and how it ended
    nseen,      \* response packets delivered to waiting operations so far
    delivery,   \* the inbound packet of the last step, if a listener was called
                \* for it: the request it answers and the operations that took it
    sArg,       \* the value of s the normalisation step is studied on
    sNorm       \* the results of applying the normalisation to it, in order

vars == <<ops, listeners, written, queue, closed, lastClose, crashed,
          accounts, lookup, nseen, delivery, sArg, sNorm>>

EventNames == {"key-created", "dump-keys", "sign", "done"}

NULL == <<>>
\* Wallet.accounts before init() has assigned it
UNDEFINED == [defined |-> FALSE, list |-> <<>>]
NoSig == [r |-> <<>>, s |-> <<>>, v |-> 0]
NoDelivery == [owner |-> 0, consumers |-> {}]
NoLookup == [address |-> <<>>, outcome |-> "none", index |-> 0, before |-> <<>>]

Init ==
    /\ ops = <<>>
    /\ listeners = [e \in EventNames |-> <<>>]
    /\ written = <<>>
    /\ queue = <<>>
    /\ closed = FALSE
    /\ lastClose = "none"
    /\ crashed = FALSE
    /\ accounts = UNDEFINED
    /\ lookup = NoLookup
    /\ nseen = 0
    /\ delivery = NoDelivery
    /\ sArg = <<>>
    /\ sNorm = <<>>

(***************************************************************************)
(* The EventEmitter and the listeners the operations install               *)
(***************************************************************************)
Listener(op, fn, once) == [op |-> op, fn |-> fn, once |-> once]

\* EventEmitter.removeListener(event, fn)
RemoveListener(ls, event, l) ==
    [ls EXCEPT ![event] = SelectSeq(@, LAMBDA x : x # l)]

\* resolve(value) of a promise: settles it once
Resolve(o, value) ==
    IF o.status = "pending" THEN [o EXCEPT !.status = "resolved", !.value = value]
    ELSE o

\* OnKeyCreated that resolves the promise as soon as the address is known
OnKeyCreatedResolves(ch, l, buff) ==
    [ch EXCEPT !.ops[l.op] =
        Resolve([@ EXCEPT !.address = HexAddress(Slice(buff, 0, ETH_ADDRESS_SIZE))],
                HexAddress(Slice(buff, 0, ETH_ADDRESS_SIZE)))]

\* createKey, once('key-created')
OnKeyCreated(ch, l, buff) ==
    [ch EXCEPT !.ops[l.op].address = HexAddress(Slice(buff, 0, ETH_ADDRESS_SIZE))]

\* createKey, once('done')
CreateKeyDone(ch, l) ==
    [ch EXCEPT !.ops[l.op] = Resolve(@, @.address)]

\* deleteKey, once('done')
DeleteKeyDone(ch, l) ==
    [ch EXCEPT !.ops[l.op] = Resolve(@, NULL)]

\* sign: onSign, and listAccounts: onDumpKeys
PushRes(ch, l, buff) ==
    [ch EXCEPT !.ops[l.op].res = Append(@, buff)]

\* SignDone with the two halves concatenated in the wrong order
SignDoneSwapped(ch, l) ==
    LET res == ch.ops[l.op].res
        off == RemoveListener(ch.listeners, "sign", Listener(l.op, "onSign", FALSE))
    IN  IF Len(res) < 2
        THEN [ch EXCEPT !.listeners = off, !.thrown = TRUE]
        ELSE [ch EXCEPT !.listeners = off,
                        !.ops[l.op] = Resolve(@, Slice(res[2], 0, 32) \o Slice(res[1], 0, 32))]

\* sign, once('done'): res[0] or res[1] undefined throws a TypeError
SignDone(ch, l) ==
    LET res == ch.ops[l.op].res
        off == RemoveListener(ch.listeners, "sign", Listener(l.op, "onSign", FALSE))
    IN  IF Len(res) < 2
        THEN [ch EXCEPT !.listeners = off, !.thrown = TRUE]
        ELSE [ch EXCEPT !.listeners = off,
                        !.ops[l.op] = Resolve(@, Slice(res[1], 0, 32) \o Slice(res[2], 0, 32))]

\* listAccounts, once('done')
ListAccountsDone(ch, l) ==
    LET off == RemoveListener(ch.listeners, "dump-keys",
                              Listener(l.op, "onDumpKeys", FALSE))
    IN  [ch EXCEPT !.listeners = off,
                   !.ops[l.op] = Resolve(@, ScanAll(@.res, <<>>))]

CallListener(ch, l, buff) ==
    CASE l.fn = "onKeyCreated" -> OnKeyCreated(ch, l, buff)
      [] l.fn = "onSign" -> PushRes(ch, l, buff)
      [] l.fn = "onDumpKeys" -> PushRes(ch, l, buff)
      [] l.fn = "createKeyDone" -> CreateKeyDone(ch, l)
      [] l.fn = "deleteKeyDone" -> DeleteKeyDone(ch, l)
      [] l.fn = "signDone" -> SignDone(ch, l)
      [] l.fn = "listAccountsDone" -> ListAccountsDone(ch, l)

\* EventEmitter.emit: the listeners registered when emit starts are called in
\* registration order, a once listener is removed before it is called, and an
\* exception thrown by a listener ends the emit
RECURSIVE RunListeners(_, _, _, _)
RunListeners(ch, event, snapshot, buff) ==
    IF snapshot = <<>> \/ ch.thrown THEN ch
    ELSE LET l == Head(snapshot)
             removed == IF l.once
                        THEN [ch EXCEPT !.listeners = RemoveListener(@, event, l)]
                        ELSE ch
             called == CallListener([removed EXCEPT !.consumers = @ \cup {l.op}],
                                    l, buff)
         IN  RunListeners(called, event, Tail(snapshot), buff)

Emit(ch, event, buff) == RunListeners(ch, event, ch.listeners[event], buff)

\* Dispatch that hands the listeners the whole packet, tag byte included
DispatchWhole(ch, data) ==
    CASE data[1] = RES_KEY_CREATED -> Emit(ch, "key-created", data)
      [] data[1] = RES_DUMP_KEYS -> Emit(ch, "dump-keys", data)
      [] data[1] = RES_SIGN -> Emit(ch, "sign", data)
      [] data[1] = RES_DONE -> Emit(ch, "done", <<>>)
      [] OTHER -> ch

\* the switch of the 'data' handler
Dispatch(ch, data) ==
    CASE data[1] = RES_KEY_CREATED -> Emit(ch, "key-created", Slice(data, 1, Len(data)))
      [] data[1] = RES_DUMP_KEYS -> Emit(ch, "dump-keys", Slice(data, 1, Len(data)))
      [] data[1] = RES_SIGN -> Emit(ch, "sign", Slice(data, 1, Len(data)))
      [] data[1] = RES_DONE -> Emit(ch, "done", <<>>)
      [] OTHER -> ch

(***************************************************************************)
(* Wallet: the directory lookup and what follows `await` in init and sign  *)
(***************************************************************************)
\* Array.prototype.find with the callback (account) => account.address = address:
\* every account visited is assigned the address, and the callback's value is
\* the assigned string, which is truthy unless empty
RECURSIVE FindAssign(_, _, _)
FindAssign(list, i, address) ==
    IF i > Len(list) THEN [list |-> list, found |-> 0]
    ELSE LET assigned == [list EXCEPT ![i].address = address]
         IN  IF address # <<>> THEN [list |-> assigned, found |-> i]
             ELSE FindAssign(assigned, i + 1, address)

\* Wallet.getAddressIndex: the directory afterwards and how the call ended
getAddressIndex(accts, address) ==
    IF ~accts.defined
    THEN [accounts |-> accts, outcome |-> "TypeError", index |-> 0]
    ELSE LET f == FindAssign(accts.list, 1, toLowerCase(address))
         IN  IF f.found = 0
             THEN [accounts |-> [accts EXCEPT !.list = f.list],
                   outcome |-> "Account not found", index |-> 0]
             ELSE [accounts |-> [accts EXCEPT !.list = f.list],
                   outcome |-> "index", index |-> f.list[f.found].index]

\* ethers.utils.getAddress: the checksum-cased form, a function of the
\* address without its case
getAddress(address) == toLowerCase(address)

\* SignContinuation with v chosen on the signature as the device gave it:
\* for (r, N - s) the two recovery ids give each other's keys
SignContinuationRawV(o, rec) ==
    LET signature == o.value
        r == setLengthLeft(Slice(signature, 0, 32), 32)
        s == NormalizeS(Slice(signature, 32, 64))
        flipped == s # Slice(signature, 32, 64)
        first == IF flipped THEN rec[28] ELSE rec[27]
        v == IF getAddress(o.target) # getAddress(HexAddress(first)) THEN 28 ELSE 27
    IN  [o EXCEPT !.wstatus = "resolved",
                  !.wvalue = [r |-> HexAddress(r), s |-> HexAddress(s), v |-> v],
                  !.recovered = HexAddress(rec[v]),
                  !.rec = rec]

\* Wallet.sign after `await this.device.sign(...)`; rec[v] is the buffer
\* ecrecover + pubToAddress give for (txHash, v, r, s)
SignContinuation(o, rec) ==
    LET signature == o.value
        r == setLengthLeft(Slice(signature, 0, 32), 32)
        s == NormalizeS(Slice(signature, 32, 64))
        v == IF getAddress(o.target) # getAddress(HexAddress(rec[27])) THEN 28 ELSE 27
    IN  [o EXCEPT !.wstatus = "resolved",
                  !.wvalue = [r |-> HexAddress(r), s |-> HexAddress(s), v |-> v],
                  !.recovered = HexAddress(rec[v]),
                  !.rec = rec]

\* the promise reactions that run once the 'data' handler has returned
Continue(before, after, rec) ==
    [i \in 1..Len(after) |->
        IF before[i].status = "pending" /\ after[i].status = "resolved"
           /\ after[i].cont = "sign"
        THEN SignContinuation(after[i], rec)
        ELSE IF before[i].status = "pending" /\ after[i].status = "resolved"
                /\ after[i].cont = "init"
        THEN [after[i] EXCEPT !.wstatus = "resolved"]
        ELSE after[i]]

\* Wallet.init after `await`: this.accounts = the result of listAccounts
RECURSIVE AssignAccounts(_, _, _, _)
AssignAccounts(before, after, i, accts) ==
    IF i > Len(after) THEN accts
    ELSE IF before[i].status = "pending" /\ after[i].status = "resolved"
            /\ after[i].cont = "init"
    THEN AssignAccounts(before, after, i + 1, [defined |-> TRUE, list |-> after[i].value])
    ELSE AssignAccounts(before, after, i + 1, accts)

(***************************************************************************)
(* Settled promises                                                        *)
(***************************************************************************)
HasListener(i) ==
    \E e \in EventNames : \E k \in 1..Len(listeners[e]) : listeners[e][k].op = i

\* a settled promise that no listener refers to any more: by the next step
\* its result has been handed to the caller and its closure (address, res)
\* is unreachable
Forget(o) ==
    [o EXCEPT !.live = FALSE,
              !.value = NULL, !.address = NULL, !.res = <<>>, !.seen = <<>>,
              !.target = <<>>, !.wvalue = NoSig, !.recovered = <<>>, !.rec = <<>>,
              !.inDirectory = FALSE, !.others = {}]

Kept ==
    [i \in 1..Len(ops) |->
        IF ops[i].status # "pending" /\ ~HasListener(i) THEN Forget(ops[i]) ELSE ops[i]]

(***************************************************************************)
(* The 'data' handler                                                      *)
(***************************************************************************)
RelevantTag(kind) ==
    CASE kind = "createKey" -> RES_KEY_CREATED
      [] kind = "sign" -> RES_SIGN
      [] kind = "listAccounts" -> RES_DUMP_KEYS
      [] OTHER -> 0

\* history: what the transport delivered to each operation between its call
\* and the first DONE after it
Observe(o, data) ==
    IF o.doneSeen THEN o
    ELSE IF data[1] = RES_DONE THEN [o EXCEPT !.doneSeen = TRUE]
    ELSE IF data[1] = RelevantTag(o.kind) THEN [o EXCEPT !.seen = Append(@, data)]
    ELSE o

\* some operation that has not had its DONE waits for packets of this tag
Awaited(data) ==
    \E i \in 1..Len(ops) : ~ops[i].doneSeen /\ data[1] = RelevantTag(ops[i].kind)

OnData(data, rec) ==
    /\ ~crashed
    /\ ~closed
    /\ Awaited(data) => nseen < MaxSeen
    /\ nseen' = IF Awaited(data) THEN nseen + 1 ELSE nseen
    /\ \E observed \in {[i \in 1..Len(ops) |-> Observe(Kept[i], data)]} :
       \E ch \in {Dispatch([ops |-> observed, listeners |-> listeners,
                            thrown |-> FALSE, consumers |-> {}], data)} :
           /\ listeners' = ch.listeners
           /\ crashed' = ch.thrown
           /\ ops' = IF ch.thrown THEN ch.ops ELSE Continue(observed, ch.ops, rec)
           /\ accounts' = IF ch.thrown THEN accounts
                          ELSE AssignAccounts(observed, ch.ops, 1, accounts)
           /\ delivery' = IF ch.consumers = {} THEN NoDelivery
                          ELSE [owner |-> IF queue = <<>> THEN 0 ELSE Head(queue),
                                consumers |-> ch.consumers]
    /\ queue' = IF data[1] = RES_DONE /\ queue # <<>> THEN Tail(queue) ELSE queue
    /\ lookup' = NoLookup
    /\ lastClose' = "none"
    /\ UNCHANGED <<written, closed, sArg, sNorm>>

Data ==
    \E data \in Packets :
        \E rec \in (IF data = PktDone /\ \E i \in 1..Len(ops) :
                                            ops[i].cont = "sign" /\ ops[i].status = "pending"
                    THEN Oracles ELSE {[v \in {27, 28} |-> AddrA]}) :
            OnData(data, rec)

(***************************************************************************)
(* The operations of Key                                                   *)
(***************************************************************************)
\* _.fill(new Array(HID_PACKET_SIZE), 0) with buff[0] = cmd, buff[1] = index
\* and, for SIGN, buff[2 + i] = payload[i]
Zeros == Fill(HID_PACKET_SIZE, 0)
RequestPacket(cmd, index, payload) ==
    <<cmd, index>> \o payload \o SubSeq(Zeros, 1, HID_PACKET_SIZE - 2 - Len(payload))

\* the positions of the directory entries whose address is the requested one
\* without regard to case
MatchesLower(list, lower) ==
    {k \in 1..Len(list) : toLowerCase(list[k].address) = lower}
Matches(list, address) == MatchesLower(list, toLowerCase(address))

NewOp(kind, cont, target, wrote) ==
    [kind |-> kind,
     status |-> IF wrote THEN "pending" ELSE "rejected",
     value |-> NULL,
     error |-> IF wrote THEN "none" ELSE "HIDError",
     address |-> NULL, res |-> <<>>,
     cont |-> cont, target |-> target,
     wstatus |-> IF cont = "none" THEN "none"
                 ELSE IF wrote THEN "pending" ELSE "rejected",
     wvalue |-> NoSig, recovered |-> <<>>, rec |-> <<>>,
     inDirectory |-> cont = "sign" /\ Matches(accounts.list, target) # {},
     wrote |-> wrote, afterClose |-> closed,
     others |-> {i \in 1..Len(ops) : ops[i].status = "pending" /\ ops[i].wrote},
     seen |-> <<>>, doneSeen |-> FALSE, live |-> TRUE]

\* the promise executor of an operation: install the listeners, build the
\* packet, device.write; `wrote` is FALSE when device.write throws, which
\* rejects the promise and leaves the listeners installed. An open transport
\* accepts the write; what a closed one does is the transport's choice
Call(kind, installed, packet, cont, target, wrote) ==
    /\ ~crashed
    /\ wrote \/ closed
    /\ Len(ops) < MaxOps
    /\ ops' = Append(Kept, NewOp(kind, cont, target, wrote))
    /\ listeners' = installed
    /\ written' = IF wrote THEN Append(written, packet) ELSE written
    /\ queue' = IF wrote /\ ~closed THEN Append(queue, Len(ops) + 1) ELSE queue
    /\ delivery' = NoDelivery
    /\ lastClose' = "none"
    /\ UNCHANGED <<closed, crashed, nseen, sArg, sNorm>>

Install(ls, event, l) == [ls EXCEPT ![event] = Append(@, l)]

\* CreateKeyListeners with the key-created listener registered with on(), so
\* that every KEY_CREATED before DONE overwrites the address
CreateKeyListenersOn ==
    Install(Install(listeners, "key-created", Listener(Len(ops) + 1, "onKeyCreated", FALSE)),
            "done", Listener(Len(ops) + 1, "createKeyDone", TRUE))

CreateKeyListeners ==
    Install(Install(listeners, "key-created", Listener(Len(ops) + 1, "onKeyCreated", TRUE)),
            "done", Listener(Len(ops) + 1, "createKeyDone", TRUE))

DeleteKeyListeners ==
    Install(listeners, "done", Listener(Len(ops) + 1, "deleteKeyDone", TRUE))

SignListeners ==
    Install(Install(listeners, "sign", Listener(Len(ops) + 1, "onSign", FALSE)),
            "done", Listener(Len(ops) + 1, "signDone", TRUE))

ListAccountsListeners ==
    Install(Install(listeners, "dump-keys", Listener(Len(ops) + 1, "onDumpKeys", FALSE)),
            "done", Listener(Len(ops) + 1, "listAccountsDone", TRUE))

createKey(index, wrote) ==
    /\ Call("createKey", CreateKeyListeners, RequestPacket(CMD_CREATE_KEY, index, <<>>),
            "none", <<>>, wrote)
    /\ lookup' = NoLookup
    /\ UNCHANGED accounts

deleteKey(index, wrote) ==
    /\ Call("deleteKey", DeleteKeyListeners, RequestPacket(CMD_DELETE, index, <<>>),
            "none", <<>>, wrote)
    /\ lookup' = NoLookup
    /\ UNCHANGED accounts

sign(index, payload, wrote) ==
    /\ Call("sign", SignListeners, RequestPacket(CMD_SIGN, index, payload),
            "none", <<>>, wrote)
    /\ lookup' = NoLookup
    /\ UNCHANGED accounts

listAccounts(wrote) ==
    /\ Call("listAccounts", ListAccountsListeners, RequestPacket(CMD_DUMP_KEYS, 0, <<>>),
            "none", <<>>, wrote)
    /\ lookup' = NoLookup
    /\ UNCHANGED accounts

\* Key.close and Wallet.close: device.close(); what a second close of the
\* transport does is the transport's choice
close(throws) ==
    /\ ~crashed
    /\ throws => closed
    /\ lastClose' = IF ~closed THEN "closed"
                   ELSE IF throws THEN "HIDError" ELSE "returned"
    /\ closed' = TRUE
    /\ lookup' = NoLookup
    /\ delivery' = NoDelivery
    /\ ops' = Kept
    /\ UNCHANGED <<listeners, written, queue, crashed, accounts, nseen, sArg, sNorm>>

(***************************************************************************)
(* The operations of Wallet                                                *)
(***************************************************************************)
\* the digest ethers.utils.keccak256(serializeTransaction(transaction)) of
\* the one transaction of the model
TxHash == Digest

WalletInit(wrote) ==
    /\ Call("listAccounts", ListAccountsListeners, RequestPacket(CMD_DUMP_KEYS, 0, <<>>),
            "init", <<>>, wrote)
    /\ lookup' = NoLookup
    /\ UNCHANGED accounts

\* Wallet.close: this.device.close()
WalletClose(throws) == close(throws)

WalletGetAddressIndex(address) ==
    /\ ~crashed
    /\ \E got \in {getAddressIndex(accounts, address)} :
           /\ accounts' = got.accounts
           /\ lookup' = [address |-> address, outcome |-> got.outcome,
                         index |-> got.index, before |-> accounts.list]
    /\ delivery' = NoDelivery
    /\ lastClose' = "none"
    /\ ops' = Kept
    /\ UNCHANGED <<listeners, written, queue, closed, crashed, nseen, sArg, sNorm>>

\* Wallet.sign up to its `await`: the lookup, then device.sign; `wrote` is
\* what device.write does if the lookup lets the call get that far
WalletSign(address, wrote) ==
    /\ ~crashed
    /\ wrote \/ closed
    /\ \E got \in {getAddressIndex(accounts, address)} :
        /\ accounts' = got.accounts
        /\ lookup' = [address |-> address, outcome |-> got.outcome,
                      index |-> got.index, before |-> accounts.list]
        /\ IF got.outcome = "index"
           THEN Call("sign", SignListeners, RequestPacket(CMD_SIGN, got.index, TxHash),
                     "sign", address, wrote)
           ELSE /\ delivery' = NoDelivery
                /\ lastClose' = "none"
                /\ ops' = Kept
                /\ UNCHANGED <<listeners, written, queue, closed, crashed, nseen, sArg, sNorm>>

\* the callers use the command channel
Next ==
    \/ \E index \in Indexes, wrote \in BOOLEAN : createKey(index, wrote)
    \/ \E index \in Indexes, wrote \in BOOLEAN : deleteKey(index, wrote)
    \/ \E index \in Indexes, payload \in Digests, wrote \in BOOLEAN :
            sign(index, payload, wrote)
    \/ \E wrote \in BOOLEAN : listAccounts(wrote)
    \/ \E throws \in BOOLEAN : close(throws)
    \/ Data

Spec == Init /\ [][Next]_vars

\* the callers use the Wallet, which owns the command channel; like main,
\* they ask nothing of the device once they have called close(): requests on
\* a closed transport are those of Spec
WalletNext ==
    \/ ~closed /\ \E wrote \in BOOLEAN : WalletInit(wrote)
    \/ \E address \in AddressArgs : WalletGetAddressIndex(address)
    \/ ~closed /\ \E address \in AddressArgs, wrote \in BOOLEAN : WalletSign(address, wrote)
    \/ ~closed /\ \E throws \in BOOLEAN : WalletClose(throws)
    \/ Data

WalletSpec == Init /\ [][WalletNext]_vars

(***************************************************************************)
(* The EIP-2 step of Wallet.sign on its own                                *)
(***************************************************************************)
\* the step applied to s, and then to its own result
Normalize ==
    /\ Len(sNorm) < MaxApply
    /\ sNorm' = Append(sNorm, NormalizeS(IF sNorm = <<>> THEN sArg
                                         ELSE sNorm[Len(sNorm)]))
    /\ UNCHANGED <<ops, listeners, written, queue, closed, lastClose, crashed,
                   accounts, lookup, nseen, delivery, sArg>>

NormalizeInit ==
    /\ ops = <<>>
    /\ listeners = [e \in EventNames |-> <<>>]
    /\ written = <<>>
    /\ queue = <<>>
    /\ closed = FALSE
    /\ lastClose = "none"
    /\ crashed = FALSE
    /\ accounts = UNDEFINED
    /\ lookup = NoLookup
    /\ nseen = 0
    /\ delivery = NoDelivery
    /\ sArg \in SInputs
    /\ sNorm = <<>>

NormalizeNext == Normalize

NormalizeSpec == NormalizeInit /\ [][NormalizeNext]_vars

(***************************************************************************)
(* Properties                                                              *)
(***************************************************************************)
\* the operations whose promise and history are still in the state
OpIds == {i \in 1..Len(ops) : ops[i].live}

\* C1: a request packet is written only while no earlier operation whose
\* request was written is still waiting for its DONE
SingleFlight ==
    \A i \in OpIds : ops[i].wrote => ops[i].others = {}

\* C2: a packet that answers a request is taken by no operation other than
\* the one that made the request
ExactlyOnceDelivery ==
    delivery.owner # 0 => delivery.consumers \subseteq {delivery.owner}

\* C3: a sign that was delivered exactly two SIGN packets and then DONE is
\* resolved with the first 32 payload bytes of the first packet followed by
\* the first 32 payload bytes of the second
SignHappyPath ==
    \A i \in OpIds :
        ops[i].kind = "sign" /\ ops[i].doneSeen /\ Len(ops[i].seen) = 2
            => /\ ops[i].status = "resolved"
               /\ ops[i].value = [k \in 1..64 |-> IF k <= 32 THEN ops[i].seen[1][k + 1]
                                                  ELSE ops[i].seen[2][k - 32 + 1]]

SignHappyPathWitness ==
    \E i \in OpIds :
        /\ ops[i].kind = "sign"
        /\ ops[i].status = "resolved"
        /\ ops[i].seen = <<PktSignLow, PktSignHigh>>

\* C4: a sign that was delivered fewer than two SIGN packets and then DONE
\* is rejected with a ProtocolError
SignTooFewRejected ==
    \A i \in OpIds :
        ops[i].kind = "sign" /\ ops[i].wrote /\ ops[i].doneSeen /\ Len(ops[i].seen) < 2
            => ops[i].status = "rejected" /\ ops[i].error = "ProtocolError"

\* C5: a sign that was delivered three or more SIGN packets and then DONE is
\* rejected with a ProtocolError
SignTooManyRejected ==
    \A i \in OpIds :
        ops[i].kind = "sign" /\ ops[i].wrote /\ ops[i].doneSeen /\ Len(ops[i].seen) >= 3
            => ops[i].status = "rejected" /\ ops[i].error = "ProtocolError"

\* the whole entries of one DUMP_KEYS packet that precede its first sentinel
EntrySize == 1 + ETH_ADDRESS_SIZE
EntriesIn(pkt) ==
    Cardinality({k \in 1..((Len(pkt) - 1) \div EntrySize) :
                    \A j \in 1..k : pkt[2 + EntrySize * (j - 1)] # SENTINEL})
ExpectedEntries(pkt) ==
    [j \in 1..EntriesIn(pkt) |->
        [index |-> pkt[2 + EntrySize * (j - 1)],
         bytes |-> [b \in 1..ETH_ADDRESS_SIZE |-> pkt[2 + EntrySize * (j - 1) + b]]]]
RECURSIVE ExpectedAccounts(_)
ExpectedAccounts(pkts) ==
    IF pkts = <<>> THEN <<>>
    ELSE ExpectedEntries(pkts[1]) \o ExpectedAccounts(Tail(pkts))

SameAccounts(value, expected) ==
    /\ Len(value) = Len(expected)
    /\ \A k \in 1..Len(value) :
        /\ value[k].index = expected[k].index
        /\ Len(value[k].address) = 2 + 2 * ETH_ADDRESS_SIZE
        /\ value[k].address[1] = "0" /\ value[k].address[2] = "x"
        /\ BytesOfHex(Tail(Tail(value[k].address))) = expected[k].bytes

\* C6: a listAccounts that was delivered DONE is resolved with the entries of
\* the DUMP_KEYS packets delivered before it, in arrival order, each packet
\* contributing the entries that precede its first sentinel
ListAccountsReassembly ==
    \A i \in OpIds :
        ops[i].kind = "listAccounts" /\ ops[i].doneSeen /\ ~crashed
            => /\ ops[i].status = "resolved"
               /\ SameAccounts(ops[i].value, ExpectedAccounts(ops[i].seen))

ListAccountsReassemblyWitness ==
    \E i \in OpIds :
        /\ ops[i].kind = "listAccounts"
        /\ ops[i].status = "resolved"
        /\ ops[i].seen = <<PktDumpOne, PktDumpFull>>
        /\ Len(ops[i].value) = 4

\* C7: a lookup in the directory returns the index of an entry whose address
\* is the requested one, and fails with not-found when there is none
LookupFindsMatch ==
    lookup.outcome \in {"index", "Account not found"}
        => IF Matches(lookup.before, lookup.address) = {}
           THEN lookup.outcome = "Account not found"
           ELSE /\ lookup.outcome = "index"
                /\ \E k \in Matches(lookup.before, lookup.address) :
                        lookup.before[k].index = lookup.index

\* C8: a signature the Signer returns recovers to the target address
SignerRecoversTarget ==
    \A i \in OpIds :
        ops[i].cont = "sign" /\ ops[i].wstatus = "resolved"
            => getAddress(ops[i].recovered) = getAddress(ops[i].target)

\* C9: an operation called after close() is rejected with a TransportError,
\* and so is a close() after close()
FailsAfterClose ==
    /\ \A i \in OpIds :
        ops[i].afterClose
            => ops[i].status = "rejected" /\ ops[i].error = "TransportError"
    /\ lastClose \in {"none", "closed"}

\* C10: an operation whose request was written and that was delivered a DONE
\* afterwards is settled
SettledAtDone ==
    \A i \in OpIds :
        ops[i].wrote /\ ops[i].doneSeen => ops[i].status # "pending"

\* C11: an operation that has returned, with a result or with an error, has
\* none of its listeners left on the emitter
ObserversTornDown ==
    \A i \in OpIds : ops[i].status # "pending" => ~HasListener(i)

\* C12: a createKey that was delivered DONE is resolved, with the address the
\* first KEY_CREATED packet delivered before that DONE carries, and with null
\* when no KEY_CREATED packet was delivered before it
CreateKeyFirstAddress ==
    \A i \in OpIds :
        ops[i].kind = "createKey" /\ ops[i].doneSeen /\ ~crashed
            => /\ ops[i].status = "resolved"
               /\ IF ops[i].seen = <<>> THEN ops[i].value = NULL
                  ELSE /\ Len(ops[i].value) = 2 + 2 * ETH_ADDRESS_SIZE
                       /\ ops[i].value[1] = "0" /\ ops[i].value[2] = "x"
                       /\ BytesOfHex(Tail(Tail(ops[i].value)))
                            = [b \in 1..ETH_ADDRESS_SIZE |-> ops[i].seen[1][b + 1]]

CreateKeyFirstAddressWitness ==
    \E i \in OpIds :
        /\ ops[i].kind = "createKey"
        /\ ops[i].status = "resolved"
        /\ ops[i].seen = <<PktKeyCreatedA, PktKeyCreatedB>>
        /\ ops[i].value = HexAddress(AddrA)

\* a <= b for the numbers two byte sequences of one length stand for
LeqBytes(a, b) ==
    \/ a = b
    \/ \E k \in 1..Len(a) : a[k] < b[k] /\ \A j \in 1..(k - 1) : a[j] = b[j]

\* the 32 bytes of s stand for a number below the group order N
InRange(s) == s # secp256k1N /\ LeqBytes(s, secp256k1N)

\* C13: the normalisation of a value s below N is at most N/2
LowSRange ==
    sNorm # <<>> /\ InRange(sArg)
        => /\ Len(sNorm[1]) = 32
           /\ LeqBytes(sNorm[1], setLengthLeft(secp256k1halfN, 32))

LowSRangeWitness ==
    /\ sArg = SigHigh
    /\ sNorm # <<>>
    /\ sNorm[1] = Fill(31, 0) \o <<1>>

\* C14: for a value s below N, normalising the normalised value gives the
\* normalised value again
LowSIdempotent ==
    Len(sNorm) >= 2 /\ InRange(sArg) => sNorm[2] = sNorm[1]

LowSIdempotentWitness ==
    /\ sArg = AddLast(secp256k1halfN, 1)
    /\ Len(sNorm) >= 2
    /\ sNorm[1] = secp256k1halfN
    /\ sNorm[2] = secp256k1halfN

\* C15: a Wallet.sign for an address of the directory, to which the device
\* gave r0 and an s0 above N/2, and for which (digest, r0, N - s0) recovers
\* the address under v = 28 and not under v = 27, returns r0, N - s0 and 28
EndToEndSign ==
    \A i \in OpIds :
        /\ ops[i].cont = "sign" /\ ops[i].wstatus = "resolved"
        /\ ops[i].inDirectory
        /\ Len(ops[i].seen) = 2
        /\ ~LeqBytes(Slice(ops[i].seen[2], 1, 33), setLengthLeft(secp256k1halfN, 32))
        /\ HexAddress(ops[i].rec[28]) = toLowerCase(ops[i].target)
        /\ HexAddress(ops[i].rec[27]) # toLowerCase(ops[i].target)
        => /\ BytesOfHex(Tail(Tail(ops[i].wvalue.r))) = Slice(ops[i].seen[1], 1, 33)
           /\ BytesOfHex(Tail(Tail(ops[i].wvalue.s)))
                = SubBytes(secp256k1N, Slice(ops[i].seen[2], 1, 33), 32, 0, <<>>)
           /\ ops[i].wvalue.v = 28

EndToEndSignWitness ==
    \E i \in OpIds :
        /\ ops[i].cont = "sign" /\ ops[i].wstatus = "resolved"
        /\ ops[i].inDirectory
        /\ ops[i].target = UpperA
        /\ ops[i].seen = <<PktSignLow, PktSignHigh>>
        /\ ops[i].rec[27] = AddrB /\ ops[i].rec[28] = AddrA
        /\ ops[i].wvalue = [r |-> HexAddress(SigLow),
                            s |-> HexAddress(Fill(31, 0) \o <<1>>), v |-> 28]

\* C16: an operation whose request was written stays pending, whatever
\* packets are delivered, until a DONE is delivered after the write
NoSettleBeforeDone ==
    \A i \in OpIds :
        ops[i].wrote /\ ~ops[i].doneSeen => ops[i].status = "pending"

NoSettleBeforeDoneWitness ==
    \E i, j \in OpIds :
        /\ ops[i].kind = "sign" /\ ops[i].wrote /\ ~ops[i].doneSeen
        /\ ops[i].seen = <<PktSignLow, PktSignHigh>>
        /\ ops[i].status = "pending"
        /\ ops[j].kind = "createKey" /\ ops[j].wrote /\ ~ops[j].doneSeen
        /\ ops[j].seen = <<PktKeyCreatedA>>
        /\ ops[j].status = "pending"

\* C17: no SIGN request is written for a Wallet.sign whose target address
\* is not in the directory
NoSignForAbsentAddress ==
    \A i \in OpIds :
        ops[i].cont = "sign" /\ ops[i].wrote => ops[i].inDirectory

\* C18: a lookup, by getAddressIndex or by Wallet.sign, leaves the cached
\* directory as it was
LookupReadOnly ==
    lookup.outcome \in {"index", "Account not found"} => accounts.list = lookup.before

\* the whole entries a packet has room for after its tag byte
EntriesPerPacket == (HID_PACKET_SIZE - 1) \div EntrySize

\* a packet of the full size none of whose index bytes is the sentinel
FullPacket(pkt) ==
    /\ Len(pkt) = HID_PACKET_SIZE
    /\ \A j \in 1..EntriesPerPacket : pkt[2 + EntrySize * (j - 1)] # SENTINEL

\* C19: every account listAccounts returns has an address of 20 bytes, and
\* packets of 64 bytes without a sentinel index byte give three accounts
\* each, the last of which ends with the last byte of the packet
CompleteEntries ==
    \A i \in OpIds :
        ops[i].kind = "listAccounts" /\ ops[i].status = "resolved"
            => /\ \A k \in 1..Len(ops[i].value) :
                    Len(ops[i].value[k].address) = 2 + 2 * ETH_ADDRESS_SIZE
               /\ (\A p \in 1..Len(ops[i].seen) : FullPacket(ops[i].seen[p]))
                    => /\ Len(ops[i].value) = EntriesPerPacket * Len(ops[i].seen)
                       /\ \A p \in 1..Len(ops[i].seen) :
                            BytesOfHex(Tail(Tail(
                                ops[i].value[EntriesPerPacket * p].address)))
                              = Slice(ops[i].seen[p], HID_PACKET_SIZE - ETH_ADDRESS_SIZE,
                                      HID_PACKET_SIZE)

CompleteEntriesWitness ==
    \E i \in OpIds :
        /\ ops[i].kind = "listAccounts"
        /\ ops[i].status = "resolved"
        /\ ops[i].seen = <<PktDumpFull, PktDumpFull>>
        /\ Len(ops[i].value) = 6
        /\ ops[i].value[6] = [index |-> 4, address |-> HexAddress(AddrB)]

\* C20: a packet delivered while no request is waiting for its DONE is taken
\* by no listener, so that it changes nothing on the channel
IdlePacketsIgnored ==
    delivery.owner = 0 => delivery.consumers = {}

====
